---- MODULE Spec2Model ----
(***************************************************************************)
(* A model of three utilities of the Hunyuan3D-2 repository:               *)
(*                                                                         *)
(*   apply_vertex_colors  (hy3dgen/texgen/vertex_coloring.py)              *)
(*   smart_load_model     (hy3dgen/shapegen/utils.py)                      *)
(*   download_model       (download_models.py)                             *)
(*                                                                         *)
(* Each utility has its own specification (SpecColor, SpecLoad,            *)
(* SpecDownload); the variables of the other two stay at their idle        *)
(* values.  Sequences are 1-based here, so vertex indices stored in faces  *)
(* are the Python indices plus one; pixel rows and columns stay 0-based.   *)
(***************************************************************************)
EXTENDS Integers, Sequences, FiniteSets, TLC

VARIABLES
    pc,          \* which utility is running and where it is
    mesh,        \* apply_vertex_colors: the input mesh object
    image,       \* apply_vertex_colors: the input image
    heap,        \* metadata dictionaries by object identity
    new_mesh,    \* apply_vertex_colors: the returned mesh, or NoMesh
    img_xy,      \* apply_vertex_colors: its locals img_y[i], img_x[i] at return
    error,       \* apply_vertex_colors: the exception raised, or "none"
    load_args,   \* smart_load_model: model_path, subfolder, use_safetensors, variant
    environ,     \* the value of HY3DGEN_MODELS, or Unset
    disk,        \* the paths that exist on disk
    hub,         \* what huggingface_hub will do when asked for a snapshot
    load_result, \* smart_load_model: the returned (config_path, ckpt_path), or NoResult
    load_error,  \* smart_load_model: the exception raised, or "none"
    download_attempted,  \* smart_load_model reached its download step
    dl_last,     \* download_model: the last call, and what it did
    dl_done,     \* download_model: the arguments of the calls without force that returned
    dl_calls     \* download_model: number of calls made

colorVars == <<mesh, image, heap, new_mesh, img_xy, error>>
loadVars == <<load_args, environ, disk, hub, load_result, load_error, download_attempted>>
dlVars == <<dl_last, dl_done, dl_calls>>
vars == <<pc, colorVars, loadVars, dlVars>>

(***************************************************************************)
(* Bounds of the explored inputs.                                          *)
(***************************************************************************)
MaxVerts == 2
MaxCoord == 1
MaxDim == 2
MaxCalls == 2

(***************************************************************************)
(* Small helpers.                                                          *)
(***************************************************************************)
Min2(a, b) == IF a <= b THEN a ELSE b
Max2(a, b) == IF a >= b THEN a ELSE b
SetMin(S) == CHOOSE x \in S : \A y \in S : x <= y
SetMax(S) == CHOOSE x \in S : \A y \in S : x >= y

NoMesh == [none |-> TRUE]
NoMeta == 0
NoResult == <<>>
Unset == [unset |-> TRUE]
NoVariant == "<None>"

(***************************************************************************)
(* The values the variables of a utility keep while another one runs.      *)
(***************************************************************************)
ColorIdle ==
    /\ mesh = [vertices |-> <<>>, faces |-> <<>>, metadata |-> NoMeta]
    /\ image = [height |-> 0, width |-> 0, channels |-> 3]
    /\ heap = <<>>
    /\ new_mesh = NoMesh
    /\ img_xy = <<>>
    /\ error = "none"

LoadIdle ==
    /\ load_args = <<>>
    /\ environ = Unset
    /\ disk = {}
    /\ hub = <<>>
    /\ load_result = NoResult
    /\ load_error = "none"
    /\ download_attempted = FALSE

DownloadIdle ==
    /\ dl_last = <<>>
    /\ dl_done = {}
    /\ dl_calls = 0

(***************************************************************************)
(* The image: np.array(image) has shape (height, width, channels).  The    *)
(* pixel grid of the explored images gives every pixel a different value   *)
(* in every channel position, all within 0..255.                           *)
(***************************************************************************)
PixelAt(img, r, c) ==
    IF img.channels = 4
    THEN <<10 * r + c + 1, 100 + 10 * r + c, 200 + 10 * r + c, 50 + 10 * r + c>>
    ELSE <<10 * r + c + 1, 100 + 10 * r + c, 200 + 10 * r + c>>

Images == [height : 0..MaxDim, width : 0..MaxDim, channels : {3, 4}]

(***************************************************************************)
(* The meshes: vertices with integer coordinates in the plane z = 0, no    *)
(* face or one face, metadata None (NoMeta) or a reference to a dictionary *)
(* in the heap.                                                            *)
(***************************************************************************)
Points == (0..MaxCoord) \X (0..MaxCoord) \X {0}
VertexSeqs == UNION {[1..n -> Points] : n \in 0..MaxVerts}
FaceChoices(n) ==
    {<<>>} \cup {<<f>> : f \in {t \in (1..n) \X (1..n) \X (1..n) :
                                    t[1] <= t[2] /\ t[2] < t[3]}}

\* the keys and values a caller puts into a metadata dictionary
Keys == {"name", "source"}
Values == {2}
InputMetadata == [k \in {"name"} |-> 1]

(***************************************************************************)
(* numpy, as apply_vertex_colors uses it.                                  *)
(***************************************************************************)
\* vertices.min(axis=0), vertices.max(axis=0), and their difference
MinBounds(vs) == [a \in 1..3 |-> SetMin({vs[i][a] : i \in 1..Len(vs)})]
MaxBounds(vs) == [a \in 1..3 |-> SetMax({vs[i][a] : i \in 1..Len(vs)})]
Size(vs) == [a \in 1..3 |-> MaxBounds(vs)[a] - MinBounds(vs)[a]]

\* A float is kept as an exact fraction <<num, den>>; den = 0 is NaN, the
\* value of 0.0 / 0.0 (a zero-size axis has every numerator 0 too).
\* Line 38: (vertices - min_bounds) / size, one coordinate of one vertex.
Normalized(v, min_bounds, size, a) == <<v[a] - min_bounds[a], size[a]>>
Times(f, k) == <<f[1] * k, f[2]>>

\* ndarray.astype(int) truncates toward zero.  The conversion of NaN is
\* undefined: the result is the integer the build's conversion instruction
\* leaves (the minimum on x86-64, 0 on aarch64, the maximum on RISC-V).
\* IntMin and IntMax stand for the extremes of the 64-bit integer; only
\* their order relative to the image size is ever used.
IntMax == 2 ^ 30
IntMin == -(2 ^ 30)
NanCastOutcomes == {IntMin, 0, IntMax}
\* NaN is converted only when x or y has zero size; otherwise the outcome
\* of that conversion is never read and one value stands for all
NanCasts(vs) ==
    IF Len(vs) > 0 /\ (Size(vs)[1] = 0 \/ Size(vs)[2] = 0) THEN NanCastOutcomes ELSE {0}
AsTypeInt(f, nanCast) ==
    IF f[2] = 0 THEN nanCast
    ELSE IF f[1] >= 0 THEN f[1] \div f[2] ELSE -((-f[1]) \div f[2])

\* np.clip(x, lo, hi) is minimum(maximum(x, lo), hi): hi when lo > hi.
Clip(x, lo, hi) == Min2(Max2(x, lo), hi)

\* Indexing an axis of length size with i: negative indices count from the
\* end, anything outside [-size, size) raises IndexError.
IndexOk(i, size) == -size <= i /\ i < size
Wrap(i, size) == IF i < 0 THEN i + size ELSE i

\* Lines 48-53: the pixel column and row of a vertex, from its normalized
\* x and y.
ImgX(nx, img, nanCast) == Clip(AsTypeInt(Times(nx, img.width), nanCast), 0, img.width - 1)
ImgY(ny, img, nanCast) == Clip(AsTypeInt(Times(ny, img.height), nanCast), 0, img.height - 1)

\* Lines 41 and 57-60: the colour written for a vertex that samples pixel px.
Opaque == 255
\* a plausible slip: the RGB branch taken for every image
SampleColorOpaque(img, px) == <<px[1], px[2], px[3], Opaque>>
SampleColor(img, px) ==
    IF img.channels = 4
    THEN px
    ELSE <<px[1], px[2], px[3], Opaque>>

(***************************************************************************)
(* trimesh.Trimesh(vertices, faces, vertex_colors) is called with the      *)
(* library's default process=True: the constructor merges the vertices     *)
(* that have equal positions and, when there are faces, drops the vertices *)
(* no face references; faces are re-indexed, per-vertex colours follow.    *)
(* The new mesh gets a metadata dictionary of its own, in which processing *)
(* records {"processed": True} (True is kept as 1).                        *)
(***************************************************************************)
ConstructorMetadata == [k \in {"processed"} |-> 1]
Referenced(vs, fs) ==
    IF Len(fs) > 0
    THEN {i \in 1..Len(vs) : \E k \in 1..Len(fs) : \E j \in 1..3 : fs[k][j] = i}
    ELSE 1..Len(vs)
\* first occurrence of every referenced position, in order
KeptIndices(vs, fs) ==
    {i \in Referenced(vs, fs) : \A j \in Referenced(vs, fs) : j < i => vs[j] # vs[i]}
RECURSIVE SortedSeq(_)
SortedSeq(S) ==
    IF S = {} THEN <<>> ELSE <<SetMin(S)>> \o SortedSeq(S \ {SetMin(S)})
Mask(vs, fs) == SortedSeq(KeptIndices(vs, fs))
\* where input vertex i went: the place in mask of the kept vertex at its
\* position (0 for an unreferenced vertex)
Inverse(vs, mask, i) ==
    IF \E p \in 1..Len(mask) : vs[mask[p]] = vs[i]
    THEN CHOOSE p \in 1..Len(mask) : vs[mask[p]] = vs[i]
    ELSE 0
Trimesh(vs, fs, colors) ==
    LET mask == Mask(vs, fs) IN
    [vertices      |-> [p \in 1..Len(mask) |-> vs[mask[p]]],
     faces         |-> [k \in 1..Len(fs) |->
                            [j \in 1..3 |-> Inverse(vs, mask, fs[k][j])]],
     vertex_colors |-> [p \in 1..Len(mask) |-> colors[mask[p]]]]

(***************************************************************************)
(* Metadata dictionaries live in the heap, a function from object ids to   *)
(* mappings; a mesh holds a reference (an id) or None (NoMeta).            *)
(***************************************************************************)
EmptyDict == [k \in {} |-> 0]
NewId(h) == Cardinality(DOMAIN h) + 1
Alloc(h, d) == [i \in DOMAIN h \cup {NewId(h)} |-> IF i \in DOMAIN h THEN h[i] ELSE d]
\* a plausible slip: new_mesh.metadata = mesh.metadata, without .copy()
MetadataAlias(h, ref) == [heap |-> h, ref |-> ref]
\* dict.copy(): a new dictionary with the same entries
MetadataCopy(h, ref) == [heap |-> Alloc(h, h[ref]), ref |-> NewId(h)]
DictSet(d, k, v) == [x \in DOMAIN d \cup {k} |-> IF x = k THEN v ELSE d[x]]
DictDel(d, k) == [x \in DOMAIN d \ {k} |-> d[x]]

(***************************************************************************)
(* apply_vertex_colors(mesh, image), the whole call.                       *)
(***************************************************************************)
Raise(kind) ==
    /\ error' = kind
    /\ new_mesh' = NoMesh
    /\ img_xy' = <<>>
    /\ heap' = heap

ApplyVertexColors ==
    /\ pc = "color_ready"
    /\ pc' = "color_done"
    /\ UNCHANGED <<mesh, image, loadVars, dlVars>>
    /\ \E nanCast \in NanCasts(mesh.vertices) :
        LET vertices == mesh.vertices
            n == Len(vertices)
        IN
        IF n = 0
        THEN \* line 33: min() of a zero-size array
             Raise("ValueError")
        ELSE
            LET min_bounds == MinBounds(vertices)
                size == Size(vertices)
                img_x == [i \in 1..n |->
                            ImgX(Normalized(vertices[i], min_bounds, size, 1), image, nanCast)]
                img_y == [i \in 1..n |->
                            ImgY(Normalized(vertices[i], min_bounds, size, 2), image, nanCast)]
                inside == \A i \in 1..n : /\ IndexOk(img_y[i], image.height)
                                          /\ IndexOk(img_x[i], image.width)
            IN
            IF ~inside
            THEN \* lines 58, 60: image_array[img_y[i], img_x[i], :]
                 Raise("IndexError")
            ELSE
                LET vertex_colors ==
                        [i \in 1..n |->
                            SampleColor(image,
                                PixelAt(image, Wrap(img_y[i], image.height),
                                               Wrap(img_x[i], image.width)))]
                    built == Trimesh(vertices, mesh.faces, vertex_colors)
                    \* the constructor gives the new mesh its own metadata
                    heap1 == Alloc(heap, ConstructorMetadata)
                    own == NewId(heap)
                    copied == MetadataCopy(heap1, mesh.metadata)
                IN
                /\ error' = "none"
                /\ img_xy' = [i \in 1..n |-> <<img_y[i], img_x[i]>>]
                /\ IF mesh.metadata # NoMeta
                   THEN /\ heap' = copied.heap
                        /\ new_mesh' = [vertices |-> built.vertices,
                                        faces |-> built.faces,
                                        vertex_colors |-> built.vertex_colors,
                                        metadata |-> copied.ref]
                   ELSE /\ heap' = heap1
                        /\ new_mesh' = [vertices |-> built.vertices,
                                        faces |-> built.faces,
                                        vertex_colors |-> built.vertex_colors,
                                        metadata |-> own]

(***************************************************************************)
(* After a successful call the caller may, once, add, rebind or remove a   *)
(* key of the input's or of the output's metadata dictionary.              *)
(***************************************************************************)
MetadataSet ==
    /\ pc = "color_done" /\ error = "none"
    /\ pc' = "color_mutated"
    /\ \E ref \in {mesh.metadata, new_mesh.metadata} \ {NoMeta} :
       \E k \in Keys : \E v \in Values :
            heap' = [heap EXCEPT ![ref] = DictSet(heap[ref], k, v)]
    /\ UNCHANGED <<mesh, image, new_mesh, img_xy, error, loadVars, dlVars>>

MetadataDel ==
    /\ pc = "color_done" /\ error = "none"
    /\ pc' = "color_mutated"
    /\ \E ref \in {mesh.metadata, new_mesh.metadata} \ {NoMeta} :
       \E k \in DOMAIN heap[ref] :
            heap' = [heap EXCEPT ![ref] = DictDel(heap[ref], k)]
    /\ UNCHANGED <<mesh, image, new_mesh, img_xy, error, loadVars, dlVars>>

InitColor ==
    /\ pc = "color_ready"
    /\ \E vs \in VertexSeqs : \E fs \in FaceChoices(Len(vs)) :
       \E md \in {NoMeta, 1} :
            mesh = [vertices |-> vs, faces |-> fs, metadata |-> md]
    /\ image \in Images
    /\ heap = IF mesh.metadata = NoMeta THEN EmptyDict ELSE [i \in {1} |-> InputMetadata]
    /\ new_mesh = NoMesh
    /\ img_xy = <<>>
    /\ error = "none"
    /\ LoadIdle
    /\ DownloadIdle

NextColor == ApplyVertexColors \/ MetadataSet \/ MetadataDel

SpecColor == InitColor /\ [][NextColor]_vars

(***************************************************************************)
(* Properties of apply_vertex_colors, under SpecColor.                     *)
(***************************************************************************)
CallDone == pc \in {"color_done", "color_mutated"}
Returned == CallDone /\ error = "none"
NumVerts == Len(mesh.vertices)
ValidImage == image.height >= 1 /\ image.width >= 1
ValidInput == NumVerts >= 1 /\ ValidImage
ChannelValid(c) == Len(c) = 4 /\ \A k \in 1..4 : c[k] \in 0..255
\* the pixel the call read for input vertex i
SampledPixel(i) == PixelAt(image, Wrap(img_xy[i][1], image.height),
                                  Wrap(img_xy[i][2], image.width))

\* C1: a mesh whose bounding box has zero size on X or on Y, with a valid
\* image, is coloured without an error, every vertex gets a defined colour,
\* and the zero-size axis samples column 0 (X) or row 0 (Y).
C1_DegenerateAxisSamplesZero ==
    (CallDone /\ ValidInput
        /\ (Size(mesh.vertices)[1] = 0 \/ Size(mesh.vertices)[2] = 0))
    => /\ error = "none"
       /\ new_mesh # NoMesh
       /\ \A p \in 1..Len(new_mesh.vertex_colors) :
              ChannelValid(new_mesh.vertex_colors[p])
       /\ \A i \in 1..NumVerts :
              /\ Size(mesh.vertices)[1] = 0 => img_xy[i][2] = 0
              /\ Size(mesh.vertices)[2] = 0 => img_xy[i][1] = 0

\* C2: a call with an empty mesh, or with an image of zero height or zero
\* width, fails with the one InvalidInput kind and returns no mesh.  The
\* code has no kind of that name; the kind it raises for an empty mesh
\* stands for it.
InvalidInput == "ValueError"
C2_EmptyInputRaisesInvalidInput ==
    (CallDone /\ ~ValidInput)
    => error = InvalidInput /\ new_mesh = NoMesh

\* C3: for a valid mesh and image, the colour of vertex i is the pixel at
\* row floor(ny * height), column floor(nx * width), each clamped into the
\* image, where n = (position - min) / size and a zero size counts as 1.
ClaimSize(a) == IF Size(mesh.vertices)[a] = 0 THEN 1 ELSE Size(mesh.vertices)[a]
ClaimCoord(i, a, extent) ==
    Min2(Max2(((mesh.vertices[i][a] - MinBounds(mesh.vertices)[a]) * extent)
                  \div ClaimSize(a), 0), extent - 1)
C3_ColorIsProjectedPixel ==
    (CallDone /\ ValidInput)
    => /\ error = "none"
       /\ new_mesh # NoMesh
       /\ Len(new_mesh.vertex_colors) = NumVerts
       /\ \A i \in 1..NumVerts :
            LET px == PixelAt(image, ClaimCoord(i, 2, image.height),
                                     ClaimCoord(i, 1, image.width))
            IN \A k \in 1..Len(px) : new_mesh.vertex_colors[i][k] = px[k]

\* C4: with a 3-channel image every output colour has alpha 255 and the RGB
\* of the pixel sampled for that vertex; with a 4-channel image every output
\* colour has the alpha of the pixel sampled for that vertex.
C4_AlphaFollowsChannels ==
    Returned
    => \A p \in 1..Len(new_mesh.vertices) :
        /\ \E i \in 1..NumVerts : mesh.vertices[i] = new_mesh.vertices[p]
        /\ \A i \in 1..NumVerts :
            mesh.vertices[i] = new_mesh.vertices[p]
            => LET c == new_mesh.vertex_colors[p]
                   px == SampledPixel(i)
               IN /\ image.channels = 3
                        => c[4] = 255 /\ \A k \in 1..3 : c[k] = px[k]
                  /\ image.channels = 4 => c[4] = px[4]
C4_Witness ==
    /\ Returned
    /\ image.channels = 4
    /\ Len(new_mesh.vertex_colors) >= 2
    /\ new_mesh.vertex_colors[1][4] # new_mesh.vertex_colors[2][4]
    /\ new_mesh.vertex_colors[1][4] # 255

\* C5: the returned mesh has exactly the input's vertex positions, in the
\* same order, and exactly the input's faces.
C5_ShapePreserved ==
    Returned
    => new_mesh.vertices = mesh.vertices /\ new_mesh.faces = mesh.faces

\* C6: the call leaves the input mesh (vertices, faces, metadata) and the
\* input image as they were, also when it fails; the output's metadata is
\* another dictionary with the input's entries when the input has metadata,
\* and a new dictionary with no entry of a caller's otherwise; a later
\* change of one of the two dictionaries leaves the other as it was.
C6_CallStep ==
    pc = "color_ready"
    => /\ mesh' = mesh
       /\ image' = image
       /\ mesh.metadata # NoMeta => heap'[mesh.metadata] = heap[mesh.metadata]
       /\ error' = "none"
            => IF mesh.metadata # NoMeta
               THEN /\ new_mesh'.metadata # mesh.metadata
                    /\ heap'[new_mesh'.metadata] = heap[mesh.metadata]
               ELSE /\ new_mesh'.metadata \notin DOMAIN heap
                    /\ \A k \in DOMAIN heap'[new_mesh'.metadata] : k \notin Keys
C6_LaterStep ==
    (Returned /\ mesh.metadata # NoMeta)
    => \/ heap'[mesh.metadata] = heap[mesh.metadata]
       \/ heap'[new_mesh.metadata] = heap[new_mesh.metadata]
C6_InputsUntouchedMetadataDuplicated == [][C6_CallStep /\ C6_LaterStep]_vars
C6_Witness ==
    /\ Returned
    /\ mesh.metadata # NoMeta
    /\ pc = "color_mutated"
    /\ heap[new_mesh.metadata] # heap[mesh.metadata]
    /\ heap[mesh.metadata] = InputMetadata

\* C7: the returned colour sequence has one entry per input vertex, and
\* entry i is the colour computed for input vertex i.
C7_OneColorPerInputVertex ==
    Returned
    => /\ Len(new_mesh.vertex_colors) = NumVerts
       /\ \A i \in 1..NumVerts :
            new_mesh.vertex_colors[i] = SampleColor(image, SampledPixel(i))

(***************************************************************************)
(* Paths.  A path is whether it is absolute and its components.            *)
(***************************************************************************)
Abs(parts) == [abs |-> TRUE, parts |-> parts]
Rel(parts) == [abs |-> FALSE, parts |-> parts]
\* os.path.join(a, b): an absolute b discards a
Join(a, b) == IF b.abs THEN b ELSE [abs |-> a.abs, parts |-> a.parts \o b.parts]
\* f"{a}/{b}": plain text, b's leading slash changes nothing
Concat(a, b) == [abs |-> a.abs, parts |-> a.parts \o b.parts]
Home == <<"home", "user">>
\* os.path.expanduser
ExpandUser(p) ==
    IF ~p.abs /\ Len(p.parts) >= 1 /\ p.parts[1] = "~"
    THEN Abs(Home \o Tail(p.parts))
    ELSE p
Child(dir, name) == Join(dir, Rel(<<name>>))
Parent(p) == [abs |-> p.abs, parts |-> SubSeq(p.parts, 1, Len(p.parts) - 1)]
\* a path and the directories above it
WithAncestors(p) == {[abs |-> p.abs, parts |-> SubSeq(p.parts, 1, k)] : k \in 0..Len(p.parts)}
\* os.path.exists
Exists(d, p) == p \in d

(***************************************************************************)
(* smart_load_model(model_path, subfolder, use_safetensors, variant).      *)
(***************************************************************************)
\* model_path.startswith("tencent/")
StartsWithTencent(model_path) ==
    /\ ~model_path.abs
    /\ Len(model_path.parts) >= 2
    /\ model_path.parts[1] = "tencent"

\* lines 106-108 (and 127-129, 160-162)
CkptName(use_safetensors, variant) ==
    LET extension == IF ~use_safetensors THEN "ckpt" ELSE "safetensors"
        variant_str == IF variant = NoVariant THEN "" ELSE "." \o variant
    IN "model" \o variant_str \o "." \o extension

\* a plausible slip: "or" for "and" in the test of the two files
EitherExists(d, dir, ckpt_name) ==
    Exists(d, Child(dir, "config.yaml")) \/ Exists(d, Child(dir, ckpt_name))
\* lines 112 and 133: os.path.exists(config_path) and os.path.exists(ckpt_path)
BothExist(d, dir, ckpt_name) ==
    Exists(d, Child(dir, "config.yaml")) /\ Exists(d, Child(dir, ckpt_name))

HardcodedRoot == Abs(<<"home", "gero", "GitHub", "Hunyuan3D-2", "models">>)
DefaultModels == Rel(<<"~", ".cache", "hy3dgen">>)
\* line 102
LocalModelPath(model_path, subfolder) == Concat(Concat(HardcodedRoot, model_path), subfolder)
\* lines 121-122
BaseDir(env) == ExpandUser(IF env = Unset THEN DefaultModels ELSE env)
\* line 123
EnvModelPath(env, model_path, subfolder) == Join(Join(BaseDir(env), model_path), subfolder)
\* a plausible slip: the hardcoded path tried for every model_path
TryHardcodedAlways(model_path) == TRUE
\* line 100
TryHardcoded(model_path) == StartsWithTencent(model_path)

\* snapshot_download(repo_id, allow_patterns=[subfolder/*]): the snapshot
\* directory it returns, and the disk after it wrote the matching files
SnapshotPath(repo_id) == Abs(<<"hf_cache", "snapshots">> \o repo_id.parts)
AfterSnapshot(d, repo_id, subfolder) ==
    LET dir == Join(SnapshotPath(repo_id), subfolder) IN
    d \cup WithAncestors(SnapshotPath(repo_id))
      \cup (IF hub.has_subfolder
            THEN WithAncestors(dir) \cup {Child(dir, f) : f \in hub.files}
            ELSE {})

Return(config_path, ckpt_path) ==
    /\ load_result' = <<config_path, ckpt_path>>
    /\ load_error' = "none"

LoadRaise(kind) ==
    /\ load_result' = NoResult
    /\ load_error' = kind

SmartLoadModel ==
    /\ pc = "load_ready"
    /\ pc' = "load_done"
    /\ UNCHANGED <<load_args, environ, hub, colorVars, dlVars>>
    /\ LET model_path == load_args.model_path
           subfolder == load_args.subfolder
           ckpt_name == CkptName(load_args.use_safetensors, load_args.variant)
           local_model_path == LocalModelPath(model_path, subfolder)
           env_model_path == EnvModelPath(environ, model_path, subfolder)
       IN
       IF /\ TryHardcoded(model_path)
          /\ Exists(disk, local_model_path)
          /\ BothExist(disk, local_model_path, ckpt_name)
       THEN \* FIRST, line 114
            /\ Return(Child(local_model_path, "config.yaml"),
                      Child(local_model_path, ckpt_name))
            /\ UNCHANGED <<disk, download_attempted>>
       ELSE IF /\ Exists(disk, env_model_path)
               /\ BothExist(disk, env_model_path, ckpt_name)
       THEN \* SECOND, line 135
            /\ Return(Child(env_model_path, "config.yaml"),
                      Child(env_model_path, ckpt_name))
            /\ UNCHANGED <<disk, download_attempted>>
       ELSE \* THIRD, lines 140-172
            /\ download_attempted' = TRUE
            /\ IF hub.outcome = "ImportError"
               THEN LoadRaise("RuntimeError") /\ disk' = disk
               ELSE IF hub.outcome = "Exception"
               THEN LoadRaise("HubError") /\ disk' = disk
               ELSE
                 LET after == AfterSnapshot(disk, model_path, subfolder)
                     downloaded == Join(SnapshotPath(model_path), subfolder)
                 IN /\ disk' = after
                    /\ IF ~Exists(after, downloaded)
                       THEN LoadRaise("FileNotFoundError")
                       ELSE IF ~Exists(after, Child(downloaded, "config.yaml"))
                       THEN LoadRaise("FileNotFoundError")
                       ELSE IF ~Exists(after, Child(downloaded, ckpt_name))
                       THEN LoadRaise("FileNotFoundError")
                       ELSE Return(Child(downloaded, "config.yaml"),
                                   Child(downloaded, ckpt_name))

(***************************************************************************)
(* The explored calls: a "tencent/" repository, another repository and an  *)
(* absolute directory as model_path; HY3DGEN_MODELS unset or set; each     *)
(* candidate directory absent, or present with any of three files.         *)
(***************************************************************************)
ModelPaths == {Rel(<<"tencent", "Hunyuan3D-2">>), Rel(<<"other", "repo">>),
               Abs(<<"data", "weights">>)}
Subfolders == {Rel(<<"hunyuan3d-dit-v2-0">>)}
Variants == {NoVariant, "fp16"}
EnvValues == {Unset, Abs(<<"data", "models">>)}
\* the files a directory may hold: the config, and the checkpoint under
\* either extension
FileNames(variant) == {"config.yaml", CkptName(TRUE, variant), CkptName(FALSE, variant)}
DirContents(variant) ==
    {[has_subfolder |-> FALSE, files |-> {}]}
        \cup {[has_subfolder |-> TRUE, files |-> F] : F \in SUBSET FileNames(variant)}
Populate(dir, content) ==
    IF content.has_subfolder
    THEN WithAncestors(dir) \cup {Child(dir, f) : f \in content.files}
    ELSE {}

InitLoad ==
    /\ pc = "load_ready"
    /\ ColorIdle
    /\ DownloadIdle
    /\ load_args \in [model_path : ModelPaths, subfolder : Subfolders,
                      use_safetensors : BOOLEAN, variant : Variants]
    /\ environ \in EnvValues
    /\ \E hard \in DirContents(load_args.variant) :
       \E env \in DirContents(load_args.variant) :
          disk = Populate(LocalModelPath(load_args.model_path, load_args.subfolder), hard)
                   \cup Populate(EnvModelPath(environ, load_args.model_path,
                                              load_args.subfolder), env)
    /\ \E content \in DirContents(load_args.variant) :
       \E outcome \in {"ImportError", "Exception", "ok"} :
          hub = [outcome |-> outcome, has_subfolder |-> content.has_subfolder,
                 files |-> content.files]
    /\ load_result = NoResult
    /\ load_error = "none"
    /\ download_attempted = FALSE

NextLoad == SmartLoadModel

SpecLoad == InitLoad /\ [][NextLoad]_vars

(***************************************************************************)
(* Properties of smart_load_model, under SpecLoad.                         *)
(***************************************************************************)
LoadDone == pc = "load_done"
ExpectedCkptName ==
    CASE load_args.use_safetensors /\ load_args.variant = NoVariant -> "model.safetensors"
      [] load_args.use_safetensors /\ load_args.variant = "fp16" -> "model.fp16.safetensors"
      [] ~load_args.use_safetensors /\ load_args.variant = NoVariant -> "model.ckpt"
      [] ~load_args.use_safetensors /\ load_args.variant = "fp16" -> "model.fp16.ckpt"
PairIn(dir) == <<[abs |-> dir.abs, parts |-> dir.parts \o <<"config.yaml">>],
                 [abs |-> dir.abs, parts |-> dir.parts \o <<ExpectedCkptName>>]>>
Complete(dir) == PairIn(dir)[1] \in disk /\ PairIn(dir)[2] \in disk
\* <hardcoded models path>/<model_path>/<subfolder>
HardDir ==
    Abs(<<"home", "gero", "GitHub", "Hunyuan3D-2", "models">>
            \o load_args.model_path.parts \o load_args.subfolder.parts)
HardComplete ==
    /\ ~load_args.model_path.abs
    /\ load_args.model_path.parts[1] = "tencent"
    /\ Complete(HardDir)
\* the HY3DGEN_MODELS path, ~/.cache/hy3dgen by default
ModelsPath == IF environ = Unset THEN Abs(<<"home", "user", ".cache", "hy3dgen">>) ELSE environ
\* <HY3DGEN_MODELS path>/<model_path>/<subfolder>, a directory under that path
UnderModelsDir ==
    [abs |-> ModelsPath.abs,
     parts |-> ModelsPath.parts \o load_args.model_path.parts \o load_args.subfolder.parts]
\* os.path.join(<HY3DGEN_MODELS path>, model_path, subfolder): an absolute
\* model_path replaces the HY3DGEN_MODELS path
JoinedModelsDir ==
    IF load_args.model_path.abs
    THEN Abs(load_args.model_path.parts \o load_args.subfolder.parts)
    ELSE UnderModelsDir

DownloadedDir ==
    Abs(<<"hf_cache", "snapshots">> \o load_args.model_path.parts \o load_args.subfolder.parts)
C9_ReturnsExistingPairOrRaises ==
    LoadDone
    => /\ (load_result # NoResult) <=> (load_error = "none")
       /\ load_result # NoResult
            => /\ load_result[1] \in disk /\ load_result[2] \in disk
               /\ Parent(load_result[1]) = Parent(load_result[2])
               /\ load_result[1].parts[Len(load_result[1].parts)] = "config.yaml"
               /\ load_result[2].parts[Len(load_result[2].parts)] = ExpectedCkptName
       /\ (download_attempted
             /\ (hub.outcome # "ok" \/ DownloadedDir \notin disk \/ ~Complete(DownloadedDir)))
            => load_result = NoResult /\ load_error # "none"
C9_Witness ==
    /\ LoadDone
    /\ download_attempted
    /\ load_args.use_safetensors /\ load_args.variant = "fp16"
    /\ load_result = PairIn(DownloadedDir)
    /\ Child(DownloadedDir, "model.fp16.ckpt") \notin disk

(***************************************************************************)
(* download_model(model_name, subfolder, local_dir, force).                *)
(***************************************************************************)
NoSubfolder == "<None>"
NoLocalDir == [none |-> TRUE]
ScriptFile == Abs(<<"home", "user", "GitHub", "Hunyuan3D-2", "download_models.py">>)
\* lines 18-23
LocalDir(local_dir) ==
    IF local_dir = NoLocalDir
    THEN Child(Parent(Parent(ScriptFile)), "models")
    ELSE local_dir
\* lines 28-34
TargetDir(model_name, subfolder, local_dir) ==
    LET base == IF StartsWithTencent(model_name)
                THEN Join(LocalDir(local_dir), model_name)
                ELSE Join(LocalDir(local_dir), Rel(<<"tencent">> \o model_name.parts))
    IN IF subfolder # NoSubfolder THEN Child(base, subfolder) ELSE base
\* any(target_dir.iterdir())
NonEmpty(d, dir) == \E p \in d : Parent(p) = dir /\ p # dir

\* The repositories on the hub: one file at the top and one in each
\* subfolder.
RepoSubfolders == {"hunyuan3d-dit-v2-0", "hunyuan3d-paint-v2-0"}
RepoFiles == {<<"README.md">>} \cup {<<sf, "config.yaml">> : sf \in RepoSubfolders}
\* allow_patterns: None lets every file through, ["<subfolder>/*"] the
\* files below that subfolder
Allowed(f, subfolder) == subfolder = NoSubfolder \/ (Len(f) >= 2 /\ f[1] = subfolder)
\* snapshot_download(repo_id, local_dir=dir, allow_patterns): the
\* repository's allowed files, written below dir
SnapshotInto(d, dir, subfolder) ==
    d \cup UNION {WithAncestors(Join(dir, Rel(f))) : f \in {g \in RepoFiles : Allowed(g, subfolder)}}

\* line 51: local_dir=target_dir.parent
SnapshotLocalDir(target_dir) == Parent(target_dir)

DownloadModel ==
    /\ pc = "dl_idle"
    /\ dl_calls < MaxCalls
    /\ dl_calls' = dl_calls + 1
    /\ UNCHANGED <<colorVars, load_args, environ, hub, load_result, load_error,
                   download_attempted>>
    /\ \E model_name \in {Rel(<<"tencent", "Hunyuan3D-2">>),
                          Rel(<<"Tencent-Hunyuan", "HunyuanDiT-v1.1-Diffusers-Distilled">>)} :
       \E subfolder \in {NoSubfolder} \cup RepoSubfolders :
       \E local_dir \in {NoLocalDir, Abs(<<"home", "user", "GitHub", "Hunyuan3D-2", "models">>)} :
       \E force \in BOOLEAN :
       \E hub_ok \in BOOLEAN :
         LET target_dir == TargetDir(model_name, subfolder, local_dir)
             \* lines 25 and 36: mkdir(exist_ok=True, parents=True)
             made == disk \cup WithAncestors(target_dir)
             call == [model_name |-> model_name, subfolder |-> subfolder,
                      local_dir |-> local_dir]
             record(snapshot_called) ==
                 [call |-> call, force |-> force, snapshot_called |-> snapshot_called,
                  repeated |-> call \in dl_done]
         IN
         IF ~force /\ NonEmpty(made, target_dir)
         THEN \* line 43
              /\ disk' = made
              /\ dl_last' = record(FALSE)
              /\ dl_done' = dl_done \cup {call}
              /\ pc' = pc
         ELSE IF hub_ok
         THEN \* lines 49-56
              /\ disk' = SnapshotInto(made, SnapshotLocalDir(target_dir), subfolder)
              /\ dl_last' = record(TRUE)
              /\ dl_done' = IF force THEN dl_done ELSE dl_done \cup {call}
              /\ pc' = pc
         ELSE \* lines 57-59: sys.exit(1)
              /\ disk' = made
              /\ dl_last' = record(TRUE)
              /\ dl_done' = dl_done
              /\ pc' = "dl_exited"

InitDownload ==
    /\ pc = "dl_idle"
    /\ ColorIdle
    /\ LoadIdle
    /\ DownloadIdle

NextDownload == DownloadModel

SpecDownload == InitDownload /\ [][NextDownload]_vars

Init == InitColor \/ InitLoad \/ InitDownload
Next == NextColor \/ NextLoad \/ NextDownload
Spec == Init /\ [][Next]_vars

(***************************************************************************)
(* Properties of download_model, under SpecDownload.                       *)
(***************************************************************************)
\* C10: once a call without force has returned, a call with the same
\* model_name, subfolder and local_dir and without force returns without
\* calling snapshot_download, with a subfolder and with none; a call with
\* force always calls snapshot_download.
C10_IdempotentWithoutForce ==
    dl_calls > 0
    => /\ (dl_last.repeated /\ ~dl_last.force) => ~dl_last.snapshot_called
       /\ dl_last.force => dl_last.snapshot_called

====
